---- MODULE Spec2Model ----
(***************************************************************************)
(* A model of the crate-rental simulation engine:                          *)
(*   synthetic/pool_sampling.py  - the selection policies (FIFO, LogNormal, *)
(*                                 Sink, ...),                              *)
(*   synthetic/records.py        - Trip, Registry, AutoIncrement,           *)
(*   synthetic/state_machine.py  - CRT (one asset) and CRTPool.proceed.     *)
(*                                                                         *)
(* Dates are day numbers counted from start_date.  A LogNormal countdown   *)
(* is a real number; it is kept here as an integer number of 1/Unit days,  *)
(* so that fractional countdowns and the "< 0" test keep their meaning.    *)
(***************************************************************************)
EXTENDS Integers, Sequences, FiniteSets, TLC

\* ------------------------------------------------------------ constants
\* FIFO(delay=7), the policy of the 'home' state.
Delay == 7
\* created_at of a CRT built without a date (the default is the class `date`).
NoDate == -1

\* --------------------------------------------------------------- bounds
\* n_crates of the constructed pool.
NCrates == 2
\* The population is capped: replenishment stops at MaxAssets assets.
MaxAssets == 3
\* proceed is called while date < MaxDay.
MaxDay == 11
\* demand ranges over 0..MaxDemand.
MaxDemand == 2
\* Countdowns are counted in 1/Unit days.
Unit == 2
\* The largest countdown LogNormal.ingress draws, in 1/Unit days.
MaxCountdown == 3
\* SpecCRT: the number of next/lose calls made on the single asset.
MaxCalls == 5
\* SpecFIFO: the FIFO is built with a delay in 0..MaxDelay.
MaxDelay == 2
\* The callers of a policy on its own use the ids 1..MaxIds,
MaxIds == 2
\* and make up to MaxFifoCalls calls.
MaxFifoCalls == 5
\* SpecIds: the number of objects created.
MaxObjects == 5

None == 0
states == <<"home", "rented", "lost">>

VARIABLES
    pool,               \* CRTPool.pool: the list of CRT objects
    state_pools,        \* CRTPool.state_pools: one policy per state
    date,               \* CRTPool.date
    trips,              \* the Trip objects, by reference (allocation order)
    registry,           \* Registry.registry: trip id -> Trip reference
    crt_id_counter,     \* CRT._id_counter
    trip_id_counter,    \* Trip._id_counter
    shrinkage_rate,     \* CRTPool.shrinkage_rate, in percent
    replenishment_rate, \* CRTPool.replenishment_rate
    mean_trip_duration, \* CRTPool.mean_trip_duration, in days
    demand,             \* the argument of the last call (proceed's demand, draw's n,
                        \* the id of ingress and egress)
    requests,           \* proceed's local `requests` of the last call
    n_new,              \* proceed's local `n` (the Poisson draw) of the last call
    loss_hits,          \* the ids whose loss test was true in the last proceed call
    reported,           \* the Trip references handed to reporting_callback, in order
    err,                \* the exception raised by the last call, or "none"
    op,                 \* the last call made: "init", "proceed", "next", "lose", ...
    calls,              \* the number of calls made so far
    out,                \* the table the last Registry.dump call returned
    id_counter,         \* class name -> the _id_counter attribute the class itself has
    objects,            \* the AutoIncrement objects created, in creation order
    draws,              \* the number of draw calls made on the 'home' policy
    ingress_tick,       \* id -> the value of draws at its last ingress into 'home'
                        \* (into the policy, when a policy is used on its own)
    ingress_cd          \* id -> the countdown drawn at its last ingress into a
                        \* LogNormal used on its own

vars == <<pool, state_pools, date, trips, registry, crt_id_counter,
          trip_id_counter, shrinkage_rate, replenishment_rate,
          mean_trip_duration, demand, requests, n_new, loss_hits, reported,
          err, op, calls, out, id_counter, objects, draws, ingress_tick,
          ingress_cd>>

\* The configuration of a pool.
configVars == <<shrinkage_rate, replenishment_rate, mean_trip_duration>>
\* What only the registry's dump, the id counters' callers and the callers
\* of a LogNormal on its own change.
otherVars == <<out, id_counter, objects, ingress_cd>>
\* The variables of the world record below.
worldVars == <<pool, state_pools, date, trips, registry, crt_id_counter,
               trip_id_counter, requests, reported, err, draws, ingress_tick>>

\* ------------------------------------------------------------- helpers
Min(a, b) == IF a <= b THEN a ELSE b
Max(a, b) == IF a >= b THEN a ELSE b
Range(s) == {s[k] : k \in DOMAIN s}
Last(s) == s[Len(s)]

\* Python's s[:n].
PySlice(s, n) ==
    IF n >= 0 THEN SubSeq(s, 1, Min(n, Len(s)))
    ELSE SubSeq(s, 1, Max(Len(s) + n, 0))

\* numpy's a[a != id].
Without(s, id) == SelectSeq(s, LAMBDA x : x # id)

\* ------------------------------------------------- PoolSampling (base)
PoolSamplingInit == <<>>
PoolSamplingIngress(p, id) == Append(p, id)
PoolSamplingEgress(p, id) == Without(p, id)
PoolSamplingRemove(p, id) == PoolSamplingEgress(p, id)

\* ---------------------------------------------------------------- Sink
\* Mutant of SinkDraw: the sink hands its members back.
SinkDrawAll(p, n) == [drawn |-> p, self |-> p]
SinkDraw(p, n) == [drawn |-> <<>>, self |-> p]

\* ---------------------------------------------------------- Scrambling
\* The values Scrambling.draw(n) can return: the pool itself for
\* n > len(pool); else np.random.choice(pool, n), whose replace defaults to
\* True: n independent picks, so any sequence of n members.
ScramblingDraws(p, n) ==
    IF n > Len(p) THEN {p} ELSE {[k \in 1..n |-> p[c[k]]] : c \in [1..n -> DOMAIN p]}

\* ---------------------------------------------------------------- FIFO
FIFOInit(delay) == [pool |-> [k \in 0..delay |-> <<>>], delay |-> delay]

\* Mutant of FIFOIngress: the id enters one bucket too near (an off-by-one).
FIFOIngressNear(f, id) ==
    [f EXCEPT !.pool[IF f.delay > 0 THEN f.delay - 1 ELSE 0] = Append(@, id)]
FIFOIngress(f, id) == [f EXCEPT !.pool[f.delay] = Append(@, id)]

\* Mutant of FIFOEgressOK: membership of any bucket passes the assertion.
FIFOEgressOKAnyBucket(f, id) == \E k \in 0..f.delay : id \in Range(f.pool[k])
\* The assertion of FIFO.egress.
FIFOEgressOK(f, id) == id \in Range(f.pool[0])
FIFOEgress(f, id) == [f EXCEPT !.pool[0] = Without(@, id)]

FIFORemove(f, id) == [f EXCEPT !.pool = [k \in 0..f.delay |-> Without(f.pool[k], id)]]

\* Mutant of FIFOAged: bucket 1 replaces bucket 0 instead of being appended.
FIFOAgedDropDue(f) ==
    IF f.delay > 0
    THEN [f EXCEPT !.pool = [k \in 0..f.delay |->
              IF k < f.delay THEN f.pool[k + 1] ELSE <<>>]]
    ELSE f

FIFOAged(f) ==
    IF f.delay > 0
    THEN [f EXCEPT !.pool = [k \in 0..f.delay |->
              IF k = 0 THEN f.pool[0] \o f.pool[1]
              ELSE IF k < f.delay THEN f.pool[k + 1]
              ELSE <<>>]]
    ELSE f

\* Mutant of FIFODraw: a draw of nothing returns before the buckets age.
FIFODrawNoAgingOnZero(f, n) ==
    [drawn |-> IF n <= Len(f.pool[0]) THEN PySlice(f.pool[0], n) ELSE f.pool[0],
     self  |-> IF n = 0 THEN f ELSE FIFOAged(f)]
\* Mutant of FIFODraw: the latest arrivals of bucket 0 are drawn, not the earliest.
FIFODrawLatest(f, n) ==
    [drawn |-> IF n <= Len(f.pool[0])
               THEN SubSeq(f.pool[0], Len(f.pool[0]) - n + 1, Len(f.pool[0]))
               ELSE f.pool[0],
     self  |-> FIFOAged(f)]
\* Mutant of FIFODraw: the slice is one too long.
FIFODrawOneMore(f, n) ==
    [drawn |-> PySlice(f.pool[0], n + 1),
     self  |-> FIFOAged(f)]
\* FIFO.draw(n): the drawn ids and the policy after the call.
FIFODraw(f, n) ==
    [drawn |-> IF n <= Len(f.pool[0]) THEN PySlice(f.pool[0], n) ELSE f.pool[0],
     self  |-> FIFOAged(f)]

\* ----------------------------------------------------------- LogNormal
\* The pool is a dict id -> countdown; n is the value drawn at ingress.
LogNormalInit == [id \in {} |-> 0]
\* np.random.lognormal(mean, std) raises ValueError for std < 0; the pool
\* builds the policy with std = mean / 2, of the sign of mean.
LogNormalIngressOK(mean) == mean >= 0
LogNormalIngress(p, id, n) ==
    [k \in DOMAIN p \cup {id} |-> IF k = id THEN n ELSE p[k]]
\* dict.pop(id) raises KeyError on a missing key.
LogNormalHas(p, id) == id \in DOMAIN p
LogNormalEgress(p, id) == [k \in DOMAIN p \ {id} |-> p[k]]
LogNormalRemove(p, id) == [k \in DOMAIN p \ {id} |-> p[k]]
\* Mutant of LogNormalDraw: a countdown of exactly 0 is due as well.
LogNormalDrawDueAtZero(p, n) ==
    [drawn |-> {id \in DOMAIN p : p[id] <= 0},
     self  |-> [id \in DOMAIN p |-> p[id] - Unit]]
\* Mutant of LogNormalDraw: the due test never succeeds.
LogNormalDrawNever(p, n) ==
    [drawn |-> {},
     self  |-> [id \in DOMAIN p |-> p[id] - Unit]]
LogNormalDraw(p, n) ==
    [drawn |-> {id \in DOMAIN p : p[id] < 0},
     self  |-> [id \in DOMAIN p |-> p[id] - Unit]]

\* ------------------------------------------------------- AutoIncrement
\* The classes that take their ids from AutoIncrement: CRT, Trip, and the
\* two dataclasses of the test.
Kinds == {"CRT", "Trip", "ClassA", "ClassB"}
\* The class body of AutoIncrement: _id_counter = 1; no subclass has the
\* attribute of its own before its first object.  (In the worlds of a pool,
\* crt_id_counter and trip_id_counter are CRT's and Trip's counters.)
ClassAttributes == [c \in {"AutoIncrement"} |-> 1]
\* cls._id_counter: the attribute of the class, else the inherited one.
GetIdCounter(attrs, cls) ==
    IF cls \in DOMAIN attrs THEN attrs[cls] ELSE attrs["AutoIncrement"]
\* Mutant of AutoIncrementBump: the counter of the base class is advanced.
AutoIncrementBumpBase(attrs, cls) ==
    [attrs EXCEPT !["AutoIncrement"] = GetIdCounter(attrs, cls) + 1]
\* cls._id_counter += 1: reads as above, sets the attribute on cls itself.
AutoIncrementBump(attrs, cls) ==
    [c \in DOMAIN attrs \cup {cls} |->
        IF c = cls THEN GetIdCounter(attrs, cls) + 1 ELSE attrs[c]]

\* ------------------------------------------------- Trip and Registry
\* Trip(crt_id, created_at, states), with the id AutoIncrement gives it.
Trip(id, crt_id, created_at, sts) ==
    [id |-> id, crt_id |-> crt_id, created_at |-> created_at, states |-> sts]

\* Registry.register: self.registry[trip.id] = trip.
RegistryRegister(reg, id, ref) ==
    [k \in DOMAIN reg \cup {id} |-> IF k = id THEN ref ELSE reg[k]]

\* pd.to_datetime on a column of dates and None: a date becomes the timestamp
\* of its midnight, None becomes NaT.
\* A cell of the column is a date or None; a timestamp is NaT or a date and
\* a time of day.
DateCell(d) == [none |-> FALSE, date |-> d]
NoneCell == [none |-> TRUE, date |-> 0]
NaT == [nat |-> TRUE, date |-> 0, time |-> 0]
to_datetime(x) == IF x.none THEN NaT ELSE [nat |-> FALSE, date |-> x.date, time |-> 0]

\* Mutant of DumpRow: the end is the date of the last entry whatever its label.
DumpRowEndAlways(k, v) ==
    [trip_id |-> k, crt_id |-> v.crt_id,
     start |-> to_datetime(DateCell(v.states[1][2])),
     end |-> to_datetime(DateCell(Last(v.states)[2])),
     state |-> Last(v.states)[1]]
\* The row Registry.dump builds for the item (k, v), after the conversions.
DumpRow(k, v) ==
    [trip_id |-> k, crt_id |-> v.crt_id,
     start |-> to_datetime(DateCell(v.states[1][2])),
     end |-> to_datetime(IF Last(v.states)[1] = "home"
                         THEN DateCell(Last(v.states)[2]) ELSE NoneCell),
     state |-> Last(v.states)[1]]

\* The rows of `for k, v in self.registry.items()`: a dict keeps its keys in
\* insertion order, and a trip is first registered when it is created, with
\* the largest trip id so far, so insertion order is key order.
RECURSIVE DumpRows(_, _, _)
DumpRows(reg, trs, keys) ==
    IF keys = {} THEN <<>>
    ELSE LET k == CHOOSE x \in keys : \A y \in keys : x <= y
         IN  <<DumpRow(k, trs[reg[k]])>> \o DumpRows(reg, trs, keys \ {k})

\* Registry.dump: df['start'] of a DataFrame built from no rows has no such
\* column and raises KeyError.
RegistryDumpOK(reg) == DOMAIN reg # {}
RegistryDump(reg, trs) == DumpRows(reg, trs, DOMAIN reg)

\* The world the operations act on: the variables as one record.
World ==
    [pool |-> pool, state_pools |-> state_pools, date |-> date, trips |-> trips,
     registry |-> registry, crt_id_counter |-> crt_id_counter,
     trip_id_counter |-> trip_id_counter, requests |-> requests,
     reported |-> reported, err |-> err, draws |-> draws,
     ingress_tick |-> ingress_tick]

\* Mutant of ReportingCallback: the callback does not reach the registry.
ReportingCallbackNoRegister(w, ref) == [w EXCEPT !.reported = Append(@, ref)]
\* self.reporting_callback(trip), the callback being registry.register.
ReportingCallback(w, ref) ==
    [w EXCEPT !.registry = RegistryRegister(@, w.trips[ref].id, ref),
              !.reported = Append(@, ref)]

\* ----------------------------------------------------------------- CRT
\* CRT(created_at, reporting_callback): state home, no trip, the next id.
CRTNew(id, created_at) ==
    [id |-> id, state |-> "home", trip |-> None, created_at |-> created_at]

\* CRT.lose(day) on pool[i].
CRTlose(w, i, day) ==
    LET crt == w.pool[i] IN
    IF crt.trip = None
    THEN [w EXCEPT !.err = "AttributeError"]
    ELSE [w EXCEPT !.trips[crt.trip].states = Append(@, <<"lost", day>>),
                   !.pool[i].state = "lost"]

\* Mutant of CRTnext: the recall leaves self.trip attached.
CRTnextKeepTrip(w, i, day) ==
    LET crt == w.pool[i] IN
    IF crt.state = "home"
    THEN LET ref == Len(w.trips) + 1
             w1  == [w EXCEPT
                        !.trips = Append(@, Trip(w.trip_id_counter, crt.id, day,
                                                 << <<"rented", day>> >>)),
                        !.trip_id_counter = @ + 1,
                        !.pool[i].trip = ref]
             w2  == ReportingCallback(w1, ref)
         IN  [w2 EXCEPT !.pool[i].state = "rented"]
    ELSE IF crt.state = "rented"
    THEN IF crt.trip = None
         THEN [w EXCEPT !.err = "AttributeError"]
         ELSE LET w1 == [w EXCEPT !.trips[crt.trip].states = Append(@, <<"home", day>>)]
                  w2 == ReportingCallback(w1, crt.trip)
              IN  [w2 EXCEPT !.pool[i].state = "home"]
    ELSE CRTlose(w, i, day)

\* Mutant of CRTnext: the new trip does not advance Trip._id_counter.
CRTnextSameTripId(w, i, day) ==
    LET crt == w.pool[i] IN
    IF crt.state = "home"
    THEN LET ref == Len(w.trips) + 1
             w1  == [w EXCEPT
                        !.trips = Append(@, Trip(w.trip_id_counter, crt.id, day,
                                                 << <<"rented", day>> >>)),
                        !.pool[i].trip = ref]
             w2  == ReportingCallback(w1, ref)
         IN  [w2 EXCEPT !.pool[i].state = "rented"]
    ELSE IF crt.state = "rented"
    THEN IF crt.trip = None
         THEN [w EXCEPT !.err = "AttributeError"]
         ELSE LET w1 == [w EXCEPT !.trips[crt.trip].states = Append(@, <<"home", day>>)]
                  w2 == ReportingCallback(w1, crt.trip)
              IN  [w2 EXCEPT !.pool[i].trip = None, !.pool[i].state = "home"]
    ELSE CRTlose(w, i, day)

\* CRT.next(day) on pool[i].
CRTnext(w, i, day) ==
    LET crt == w.pool[i] IN
    IF crt.state = "home"
    THEN LET ref == Len(w.trips) + 1
             w1  == [w EXCEPT
                        !.trips = Append(@, Trip(w.trip_id_counter, crt.id, day,
                                                 << <<"rented", day>> >>)),
                        !.trip_id_counter = @ + 1,
                        !.pool[i].trip = ref]
             w2  == ReportingCallback(w1, ref)
         IN  [w2 EXCEPT !.pool[i].state = "rented"]
    ELSE IF crt.state = "rented"
    THEN IF crt.trip = None
         THEN [w EXCEPT !.err = "AttributeError"]
         ELSE LET w1 == [w EXCEPT !.trips[crt.trip].states = Append(@, <<"home", day>>)]
                  w2 == ReportingCallback(w1, crt.trip)
              IN  [w2 EXCEPT !.pool[i].trip = None, !.pool[i].state = "home"]
    ELSE CRTlose(w, i, day)

\* ------------------------------------------------------------- CRTPool
\* self.state_pools[state].ingress(id); n is the countdown LogNormal draws.
PoolIngress(w, state, id, n) ==
    IF state = "home"
    THEN [w EXCEPT !.state_pools.home = FIFOIngress(@, id),
                   !.ingress_tick = [k \in DOMAIN @ \cup {id} |->
                                        IF k = id THEN w.draws ELSE @[k]]]
    ELSE IF state = "rented"
    THEN IF LogNormalIngressOK(mean_trip_duration)
         THEN [w EXCEPT !.state_pools.rented = LogNormalIngress(@, id, n)]
         ELSE [w EXCEPT !.err = "ValueError"]
    ELSE [w EXCEPT !.state_pools.lost = PoolSamplingIngress(@, id)]

\* self.state_pools[state].egress(id)
PoolEgress(w, state, id) ==
    IF state = "home"
    THEN IF FIFOEgressOK(w.state_pools.home, id)
         THEN [w EXCEPT !.state_pools.home = FIFOEgress(@, id)]
         ELSE [w EXCEPT !.err = "AssertionError"]
    ELSE IF state = "rented"
    THEN IF LogNormalHas(w.state_pools.rented, id)
         THEN [w EXCEPT !.state_pools.rented = LogNormalEgress(@, id)]
         ELSE [w EXCEPT !.err = "KeyError"]
    ELSE [w EXCEPT !.state_pools.lost = PoolSamplingEgress(@, id)]

\* self.state_pools[state].remove(id)
PoolRemove(w, state, id) ==
    IF state = "home"
    THEN [w EXCEPT !.state_pools.home = FIFORemove(@, id)]
    ELSE IF state = "rented"
    THEN IF LogNormalHas(w.state_pools.rented, id)
         THEN [w EXCEPT !.state_pools.rented = LogNormalRemove(@, id)]
         ELSE [w EXCEPT !.err = "KeyError"]
    ELSE [w EXCEPT !.state_pools.lost = PoolSamplingRemove(@, id)]

\* crt.id in requests[crt.state]
InRequests(req, state, id) ==
    IF state = "home" THEN id \in Range(req.home)
    ELSE IF state = "rented" THEN id \in req.rented
    ELSE id \in Range(req.lost)

\* requests = {state: self.state_pools[state].draw(demand) for state in states}
DrawRequests(w, n) ==
    LET h == FIFODraw(w.state_pools.home, n)
        r == LogNormalDraw(w.state_pools.rented, n)
        l == SinkDraw(w.state_pools.lost, n)
    IN  [w EXCEPT !.requests = [home |-> h.drawn, rented |-> r.drawn, lost |-> l.drawn],
                  !.state_pools = [home |-> h.self, rented |-> r.self, lost |-> l.self],
                  !.draws = @ + 1]

\* Mutant of LoseBranch: the lost asset is not ingressed into the 'lost' policy.
LoseBranchNoIngress(w, i) ==
    LET id == w.pool[i].id
        w1 == PoolRemove(w, w.pool[i].state, id)
    IN  IF w1.err = "none" THEN CRTlose(w1, i, w.date) ELSE w1

\* The loss branch of the loop: remove, lose, ingress into 'lost', continue.
LoseBranch(w, i) ==
    LET id == w.pool[i].id
        w1 == PoolRemove(w, w.pool[i].state, id)
        w2 == IF w1.err = "none" THEN CRTlose(w1, i, w.date) ELSE w1
    IN  IF w2.err = "none" THEN PoolIngress(w2, "lost", id, 0) ELSE w2

\* The due branch of the loop: egress, next, ingress into the new state's policy.
MoveBranch(w, i, n) ==
    LET id == w.pool[i].id
        w1 == PoolEgress(w, w.pool[i].state, id)
        w2 == IF w1.err = "none" THEN CRTnext(w1, i, w.date) ELSE w1
    IN  IF w2.err = "none" THEN PoolIngress(w2, w2.pool[i].state, id, n) ELSE w2

\* np.random.rand() < self.shrinkage_rate, both in percent.
LossTest(r) == r < shrinkage_rate

\* Mutant of LoopStep: the due test comes before the loss test.
LoopStepDueFirst(w, i, rand, cd) ==
    LET crt == w.pool[i] IN
    IF w.err # "none" THEN w
    ELSE IF InRequests(w.requests, crt.state, crt.id)
    THEN MoveBranch(w, i, IF crt.id \in DOMAIN cd THEN cd[crt.id] ELSE 0)
    ELSE IF crt.state = "rented" /\ LossTest(rand[crt.id])
    THEN LoseBranch(w, i)
    ELSE w

\* One iteration of `for crt in self.pool`.  rand[id] is np.random.rand() in
\* percent; cd[id] is the countdown drawn when id enters the rented policy.
LoopStep(w, i, rand, cd) ==
    LET crt == w.pool[i] IN
    IF w.err # "none" THEN w
    ELSE IF crt.state = "rented" /\ LossTest(rand[crt.id])
    THEN LoseBranch(w, i)
    ELSE IF InRequests(w.requests, crt.state, crt.id)
    THEN MoveBranch(w, i, IF crt.id \in DOMAIN cd THEN cd[crt.id] ELSE 0)
    ELSE w

RECURSIVE Loop(_, _, _, _)
Loop(w, i, rand, cd) ==
    IF i > Len(w.pool) THEN w
    ELSE Loop(LoopStep(w, i, rand, cd), i + 1, rand, cd)

\* Mutant of add_crt: the new asset enters the policy but not the pool list.
add_crtNoAppend(w, crt) == PoolIngress(w, crt.state, crt.id, 0)

\* CRTPool.add_crt
add_crt(w, crt) ==
    LET w1 == PoolIngress(w, crt.state, crt.id, 0)
    IN  [w1 EXCEPT !.pool = Append(@, crt)]

\* crt = CRT(created_at, ...): the id comes from, and advances, CRT._id_counter.
RECURSIVE Replenish(_, _)
Replenish(w, n) ==
    IF n <= 0 \/ w.err # "none" THEN w
    ELSE LET crt == CRTNew(w.crt_id_counter, w.date)
             w1  == [w EXCEPT !.crt_id_counter = @ + 1]
         IN  Replenish(add_crt(w1, crt), n - 1)

\* CRTPool.report
report(p) ==
    [s \in Range(states) |-> Cardinality({i \in DOMAIN p : p[i].state = s})]

\* np.random.poisson(lam) raises ValueError for lam < 0.
PoissonOK(rate) == rate >= 0

\* Mutant of ProceedResult: the date advances before the tick's events.
ProceedResultDateFirst(w, n, rand, cd, k) ==
    LET w0 == [w EXCEPT !.date = @ + 1]
        w1 == DrawRequests(w0, n)
        w2 == Loop(w1, 1, rand, cd)
    IN  IF w2.err = "none" /\ ~PoissonOK(replenishment_rate)
        THEN [w2 EXCEPT !.err = "ValueError"]
        ELSE Replenish(w2, k)

\* CRTPool.proceed(demand), given the random draws of the call.
ProceedResult(w, n, rand, cd, k) ==
    LET w1 == DrawRequests(w, n)
        w2 == Loop(w1, 1, rand, cd)
        w3 == IF w2.err = "none" /\ ~PoissonOK(replenishment_rate)
              THEN [w2 EXCEPT !.err = "ValueError"]
              ELSE Replenish(w2, k)
    IN  IF w3.err = "none" THEN [w3 EXCEPT !.date = @ + 1] ELSE w3

\* CRTPool.__init__: the loop creating n_crates assets.
RECURSIVE Construct(_, _)
Construct(w, n) ==
    IF n <= 0 THEN w
    ELSE LET crt == CRTNew(w.crt_id_counter, NoDate)
             w1  == [w EXCEPT !.crt_id_counter = @ + 1]
             w2  == PoolIngress(w1, crt.state, crt.id, 0)
         IN  Construct([w2 EXCEPT !.pool = Append(@, crt)], n - 1)

NoRequests == [home |-> <<>>, rented |-> {}, lost |-> <<>>]

\* Before any object exists: the class counters start at 1.
EmptyWorld ==
    [pool |-> <<>>,
     state_pools |-> [home |-> FIFOInit(Delay), rented |-> LogNormalInit,
                      lost |-> PoolSamplingInit],
     date |-> 0, trips |-> <<>>, registry |-> [k \in {} |-> 0],
     crt_id_counter |-> 1, trip_id_counter |-> 1, requests |-> NoRequests,
     reported |-> <<>>, err |-> "none", draws |-> 0,
     ingress_tick |-> [k \in {} |-> 0]]

\* The variables take the fields of w.
Becomes(w) ==
    /\ pool' = w.pool
    /\ state_pools' = w.state_pools
    /\ date' = w.date
    /\ trips' = w.trips
    /\ registry' = w.registry
    /\ crt_id_counter' = w.crt_id_counter
    /\ trip_id_counter' = w.trip_id_counter
    /\ requests' = w.requests
    /\ reported' = w.reported
    /\ err' = w.err
    /\ draws' = w.draws
    /\ ingress_tick' = w.ingress_tick

Starts(w) ==
    /\ pool = w.pool
    /\ state_pools = w.state_pools
    /\ date = w.date
    /\ trips = w.trips
    /\ registry = w.registry
    /\ crt_id_counter = w.crt_id_counter
    /\ trip_id_counter = w.trip_id_counter
    /\ requests = w.requests
    /\ reported = w.reported
    /\ err = w.err
    /\ draws = w.draws
    /\ ingress_tick = w.ingress_tick
    /\ op = "init"
    /\ demand = 0
    /\ n_new = 0
    /\ loss_hits = {}
    /\ calls = 0
    /\ out = <<>>
    /\ id_counter = ClassAttributes
    /\ objects = <<>>
    /\ ingress_cd = [k \in {} |-> 0]

\* The values np.random.rand() takes, in percent; a draw below the rate loses.
Rands == {0, 99}
\* The values LogNormal.ingress draws, in 1/Unit days: due at once, zero, late.
Countdowns == {-1, 0, MaxCountdown}
\* With mean 0 (and std 0) the draw is log(1) = 0.
CountdownsOf(mean) == IF mean = 0 THEN {0} ELSE Countdowns
\* np.random.poisson(rate): 0 for rate 0, any count for a positive rate; the
\* model draws no more than the room left under MaxAssets.
Poissons(rate, room) == IF rate > 0 THEN {0} \cup (1..room) ELSE {0}

\* ---------------------------------------------------- Spec: a CRTPool
\* A positive loss rate: a rate of 0 only removes behaviours (no draw of
\* np.random.rand() is below it), and LiveSpec and SpecScenario have it.
Init ==
    /\ shrinkage_rate = 50
    /\ replenishment_rate \in {0, 1}
    /\ mean_trip_duration = 1
    /\ Starts(Construct(EmptyWorld, NCrates))

RentedIds(p) == {p[i].id : i \in {j \in DOMAIN p : p[j].state = "rented"}}
HomeIds(p) == {p[i].id : i \in {j \in DOMAIN p : p[j].state = "home"}}
LostIds(p) == {p[i].id : i \in {j \in DOMAIN p : p[j].state = "lost"}}

\* pool.proceed(demand=n) for a demand in D, on a date before lastDay.
ProceedWith(D, lastDay) ==
    /\ err = "none"
    /\ date < lastDay
    /\ \E n \in D :
         LET toRent == HomeIds(pool) \cap Range(FIFODraw(state_pools.home, n).drawn)
         IN  \E rand \in [RentedIds(pool) -> Rands], cd \in [toRent -> CountdownsOf(mean_trip_duration)],
                k \in Poissons(replenishment_rate, MaxAssets - Len(pool)) :
               /\ Becomes(ProceedResult(World, n, rand, cd, k))
               /\ demand' = n
               /\ n_new' = k
               /\ loss_hits' = {id \in RentedIds(pool) : LossTest(rand[id])}
    /\ op' = "proceed"
    /\ calls' = calls + 1
    /\ UNCHANGED <<configVars, otherVars>>

Proceed == ProceedWith(0..MaxDemand, MaxDay)

Next == Proceed

Spec == Init /\ [][Next]_vars

\* ------------------------------- LiveSpec: no loss, demand >= 1 every day
InitLive ==
    /\ shrinkage_rate = 0
    /\ replenishment_rate \in {0, 1}
    /\ mean_trip_duration = 1
    /\ Starts(Construct(EmptyWorld, NCrates))

ProceedDemanded == ProceedWith(1..MaxDemand, MaxDay)

NextLive == ProceedDemanded

\* A day passes: what every completed proceed call does to the date, and
\* nothing else does.
Tick == date < MaxDay /\ err = "none" /\ date' = date + 1

\* The caller's loop calls proceed day after day: while a day can pass, one does.
LiveSpec == InitLive /\ [][NextLive]_vars /\ WF_date(Tick)

\* --------------------- SpecScenario: the pool of the test fixture as well
\* pool_size of test_pool.py
PoolSize == 10

InitScenario ==
    \/ /\ shrinkage_rate \in {0, 50}
       /\ replenishment_rate \in {0, 1}
       /\ mean_trip_duration = 1
       /\ Starts(Construct(EmptyWorld, NCrates))
    \/ /\ shrinkage_rate = 0
       /\ replenishment_rate = 0
       /\ mean_trip_duration = 1
       /\ Starts(Construct(EmptyWorld, PoolSize))

ProceedScenario == ProceedWith(0..MaxDemand, Delay + 2)

NextScenario == ProceedScenario

SpecScenario == InitScenario /\ [][NextScenario]_vars

\* --------------- SpecConfig: pools built with any configuration at all
\* CRTPool.__init__ stores its arguments as they are and creates the assets.
InitConfig ==
    /\ shrinkage_rate \in {-50, 50}
    /\ replenishment_rate \in {-1, 0, 1}
    /\ mean_trip_duration \in {-1, 0, 1}
    /\ Starts(Construct(EmptyWorld, NCrates))

ProceedConfig == ProceedWith(0..MaxDemand, Delay + 2)

NextConfig == ProceedConfig

SpecConfig == InitConfig /\ [][NextConfig]_vars

\* ------------------------------------------------- SpecCRT: one asset
CRTDays == 0..1

InitCRT ==
    /\ shrinkage_rate = 0
    /\ replenishment_rate = 0
    /\ mean_trip_duration = 1
    /\ Starts([EmptyWorld EXCEPT !.pool = <<CRTNew(1, 0)>>, !.crt_id_counter = 2])

\* crt.next(day); an exception of the previous call has been caught.
CallNext ==
    /\ calls < MaxCalls
    /\ \E day \in CRTDays : Becomes(CRTnext([World EXCEPT !.err = "none"], 1, day))
    /\ op' = "next"
    /\ calls' = calls + 1
    /\ UNCHANGED <<configVars, demand, n_new, loss_hits, otherVars>>

\* crt.lose(day)
CallLose ==
    /\ calls < MaxCalls
    /\ \E day \in CRTDays : Becomes(CRTlose([World EXCEPT !.err = "none"], 1, day))
    /\ op' = "lose"
    /\ calls' = calls + 1
    /\ UNCHANGED <<configVars, demand, n_new, loss_hits, otherVars>>

NextCRT == CallNext \/ CallLose

SpecCRT == InitCRT /\ [][NextCRT]_vars

\* ------------- SpecAssets: the lone asset of SpecCRT, or a pool's assets
LoneAsset == Len(pool) = 1

InitAssets == InitCRT \/ Init

NextAssets == (LoneAsset /\ NextCRT) \/ (~LoneAsset /\ ProceedScenario)

SpecAssets == InitAssets /\ [][NextAssets]_vars

\* ------------------ SpecRegistry: one asset reporting to a Registry
\* registry.dump()
CallDump ==
    /\ calls < MaxCalls
    /\ IF RegistryDumpOK(registry)
       THEN out' = RegistryDump(registry, trips) /\ err' = "none"
       ELSE out' = out /\ err' = "KeyError"
    /\ op' = "dump"
    /\ calls' = calls + 1
    /\ UNCHANGED <<pool, state_pools, date, trips, registry, crt_id_counter,
                   trip_id_counter, requests, reported, draws, ingress_tick,
                   configVars, demand, n_new, loss_hits, id_counter, objects,
                   ingress_cd>>

NextRegistry == CallNext \/ CallLose \/ CallDump

SpecRegistry == InitCRT /\ [][NextRegistry]_vars

\* ------------------------- SpecIds: objects of the AutoIncrement kinds
InitIds ==
    /\ shrinkage_rate = 0
    /\ replenishment_rate = 0
    /\ mean_trip_duration = 1
    /\ Starts(EmptyWorld)

\* An object of class cls takes cls._id_counter as id and advances it.
Created(cls) ==
    /\ Len(objects) < MaxObjects
    /\ objects' = Append(objects, [kind |-> cls, id |-> GetIdCounter(id_counter, cls)])
    /\ id_counter' = AutoIncrementBump(id_counter, cls)
    /\ calls' = calls + 1
    /\ UNCHANGED <<worldVars, configVars, demand, n_new, loss_hits, out, ingress_cd>>

\* CRT(): self.id = self._id_counter; CRT._id_counter += 1
NewCRT == Created("CRT") /\ op' = "CRT"

\* A dataclass object, through AutoIncrement.__post_init__.
NewRecord == \E cls \in Kinds \ {"CRT"} : Created(cls) /\ op' = cls

NextIds == NewCRT \/ NewRecord

SpecIds == InitIds /\ [][NextIds]_vars

\* ------------------------------------------- SpecFIFO: one FIFO policy
\* fifo = FIFO(delay=d); the object is kept in state_pools.home.
InitFIFO ==
    /\ shrinkage_rate = 0
    /\ replenishment_rate = 0
    /\ mean_trip_duration = 1
    /\ \E d \in 0..MaxDelay :
          Starts([EmptyWorld EXCEPT !.state_pools.home = FIFOInit(d)])

\* fifo.draw(n), the caller keeping the returned ids in requests.home.
FIFODrawCall(w, n) ==
    LET h == FIFODraw(w.state_pools.home, n)
    IN  [w EXCEPT !.requests.home = h.drawn,
                  !.state_pools.home = h.self,
                  !.draws = @ + 1]

\* fifo.ingress(id); an exception of the previous call has been caught.
FifoIngress ==
    /\ calls < MaxFifoCalls
    /\ \E id \in 1..MaxIds :
          /\ Becomes(PoolIngress([World EXCEPT !.err = "none"], "home", id, 0))
          /\ demand' = id
    /\ op' = "ingress"
    /\ calls' = calls + 1
    /\ UNCHANGED <<configVars, n_new, loss_hits, otherVars>>

\* fifo.egress(id)
FifoEgress ==
    /\ calls < MaxFifoCalls
    /\ \E id \in 1..MaxIds :
          /\ Becomes(PoolEgress([World EXCEPT !.err = "none"], "home", id))
          /\ demand' = id
    /\ op' = "egress"
    /\ calls' = calls + 1
    /\ UNCHANGED <<configVars, n_new, loss_hits, otherVars>>

\* fifo.draw(n)
FifoDraw ==
    /\ calls < MaxFifoCalls
    /\ \E n \in 0..MaxDemand :
          /\ Becomes(FIFODrawCall([World EXCEPT !.err = "none"], n))
          /\ demand' = n
    /\ op' = "draw"
    /\ calls' = calls + 1
    /\ UNCHANGED <<configVars, n_new, loss_hits, otherVars>>

NextFIFO == FifoIngress \/ FifoEgress \/ FifoDraw

SpecFIFO == InitFIFO /\ [][NextFIFO]_vars

\* --------- SpecRented: a LogNormal policy on its own, or that of a pool
\* ln = LogNormal(mean, std), with no asset around it; the object is kept in
\* state_pools.rented.
NoPool == Len(pool) = 0

InitLogNormal ==
    /\ shrinkage_rate = 0
    /\ replenishment_rate = 0
    /\ mean_trip_duration = 1
    /\ Starts(EmptyWorld)

\* ln.draw(n), the caller keeping the returned ids in requests.rented.
LogNormalDrawCall(w, n) ==
    LET r == LogNormalDraw(w.state_pools.rented, n)
    IN  [w EXCEPT !.requests.rented = r.drawn,
                  !.state_pools.rented = r.self,
                  !.draws = @ + 1]

\* ln.ingress(id), the countdown drawn being c.
LnIngress ==
    /\ calls < MaxFifoCalls
    /\ \E id \in 1..MaxIds, c \in Countdowns :
          LET w == PoolIngress([World EXCEPT !.err = "none"], "rented", id, c)
              tick == [k \in DOMAIN ingress_tick \cup {id} |->
                          IF k = id THEN draws ELSE ingress_tick[k]]
          IN  /\ Becomes([w EXCEPT !.ingress_tick = tick])
              /\ ingress_cd' = [k \in DOMAIN ingress_cd \cup {id} |->
                                   IF k = id THEN c ELSE ingress_cd[k]]
              /\ demand' = id
    /\ op' = "ingress"
    /\ calls' = calls + 1
    /\ UNCHANGED <<configVars, n_new, loss_hits, out, id_counter, objects>>

\* ln.egress(id)
LnEgress ==
    /\ calls < MaxFifoCalls
    /\ \E id \in 1..MaxIds :
          /\ Becomes(PoolEgress([World EXCEPT !.err = "none"], "rented", id))
          /\ demand' = id
    /\ op' = "egress"
    /\ calls' = calls + 1
    /\ UNCHANGED <<configVars, n_new, loss_hits, otherVars>>

\* ln.draw(n)
LnDraw ==
    /\ calls < MaxFifoCalls
    /\ \E n \in 0..MaxDemand :
          /\ Becomes(LogNormalDrawCall([World EXCEPT !.err = "none"], n))
          /\ demand' = n
    /\ op' = "draw"
    /\ calls' = calls + 1
    /\ UNCHANGED <<configVars, n_new, loss_hits, otherVars>>

NextLogNormal == LnIngress \/ LnEgress \/ LnDraw

InitRented == InitLogNormal \/ InitScenario

NextRented == (NoPool /\ NextLogNormal) \/ (~NoPool /\ ProceedScenario)

SpecRented == InitRented /\ [][NextRented]_vars

\* ------------------------------- SpecScrambling: one Scrambling policy
\* sc = Scrambling(); the object is kept in state_pools.lost.
InitScrambling ==
    /\ shrinkage_rate = 0
    /\ replenishment_rate = 0
    /\ mean_trip_duration = 1
    /\ Starts(EmptyWorld)

\* sc.ingress(id)
ScIngress ==
    /\ calls < MaxFifoCalls
    /\ \E id \in 1..MaxIds :
          /\ Becomes(PoolIngress([World EXCEPT !.err = "none"], "lost", id, 0))
          /\ demand' = id
    /\ op' = "ingress"
    /\ calls' = calls + 1
    /\ UNCHANGED <<configVars, n_new, loss_hits, otherVars>>

\* sc.egress(id)
ScEgress ==
    /\ calls < MaxFifoCalls
    /\ \E id \in 1..MaxIds :
          /\ Becomes(PoolEgress([World EXCEPT !.err = "none"], "lost", id))
          /\ demand' = id
    /\ op' = "egress"
    /\ calls' = calls + 1
    /\ UNCHANGED <<configVars, n_new, loss_hits, otherVars>>

\* sc.draw(n), the caller keeping the returned ids in requests.lost.
ScDraw ==
    /\ calls < MaxFifoCalls
    /\ \E n \in 0..MaxDemand :
          /\ \E d \in ScramblingDraws(state_pools.lost, n) :
                Becomes([World EXCEPT !.err = "none", !.requests.lost = d])
          /\ demand' = n
    /\ op' = "draw"
    /\ calls' = calls + 1
    /\ UNCHANGED <<configVars, n_new, loss_hits, otherVars>>

NextScrambling == ScIngress \/ ScEgress \/ ScDraw

SpecScrambling == InitScrambling /\ [][NextScrambling]_vars

\* =================================================================
\* The claims
\* =================================================================
Sum3(r) == r.home + r.rented + r.lost
FIFOMembers(f) == UNION {Range(f.pool[k]) : k \in 0..f.delay}
RECURSIVE FIFOSizeFrom(_, _)
FIFOSizeFrom(f, k) == IF k > f.delay THEN 0 ELSE Len(f.pool[k]) + FIFOSizeFrom(f, k + 1)
FIFOSize(f) == FIFOSizeFrom(f, 0)

\* C1: after construction and after every proceed, the ids held by the 'home'
\* policy (all FIFO buckets), the 'rented' policy (LogNormal keys) and the
\* 'lost' policy (Sink) are exactly the ids of the assets that are home,
\* rented and lost; no id is in two policies, none is held twice by one.
C1_PolicyMembership ==
    /\ FIFOMembers(state_pools.home) = HomeIds(pool)
    /\ DOMAIN state_pools.rented = RentedIds(pool)
    /\ Range(state_pools.lost) = LostIds(pool)
    /\ FIFOSize(state_pools.home) = Cardinality(FIFOMembers(state_pools.home))
    /\ Len(state_pools.lost) = Cardinality(Range(state_pools.lost))
    /\ FIFOMembers(state_pools.home) \cap DOMAIN state_pools.rented = {}
    /\ FIFOMembers(state_pools.home) \cap Range(state_pools.lost) = {}
    /\ DOMAIN state_pools.rented \cap Range(state_pools.lost) = {}
    /\ Cardinality({pool[i].id : i \in DOMAIN pool}) = Len(pool)

\* A tick has left assets in all three states, one of them back home from a trip.
C1_Witness ==
    /\ op = "proceed"
    /\ LostIds(pool) # {}
    /\ RentedIds(pool) # {}
    /\ \E r \in DOMAIN trips :
          /\ Last(trips[r].states)[1] = "home"
          /\ trips[r].crt_id \in FIFOMembers(state_pools.home)

\* C2: after every proceed the census sums to the number of assets ever
\* created (n_crates plus all replenishment draws so far, which is what
\* CRT._id_counter has counted); the population grows in a tick by exactly
\* that tick's draw, so it never shrinks and is constant at rate 0.
C2_Population ==
    /\ Sum3(report(pool)) = NCrates
    /\ [][/\ Sum3(report(pool')) = Sum3(report(pool)) + n_new'
          /\ Sum3(report(pool')) = crt_id_counter' - 1
          /\ Sum3(report(pool')) = Len(pool')
          /\ replenishment_rate = 0 => Sum3(report(pool')) = Sum3(report(pool))]_vars

\* A tick that replenished a pool which already has a lost and a rented asset.
C2_Witness ==
    /\ op = "proceed"
    /\ n_new = 1
    /\ report(pool).lost >= 1
    /\ report(pool).rented >= 1
    /\ Len(pool) = NCrates + 1

\* C4: driven by proceed(demand) with demand >= 0, the assertion of
\* FIFO.egress never fails and no LogNormal.egress/remove meets a missing
\* id: every id the tick egresses is a member that the tick's draw returned.
C4_EgressOnlyDue ==
    /\ [](err = "none")
    /\ [][/\ Range(requests'.home) \subseteq Range(state_pools.home.pool[0])
          /\ requests'.rented \subseteq DOMAIN state_pools.rented
          /\ \A i \in DOMAIN pool :
                /\ (pool[i].state = "home" /\ pool'[i].state # "home")
                      => pool[i].id \in Range(requests'.home)
                /\ (pool[i].state = "rented" /\ pool'[i].state = "home")
                      => pool[i].id \in requests'.rented]_vars

\* A tick egressed a due asset from each of the two policies.
C4_Witness ==
    /\ op = "proceed"
    /\ err = "none"
    /\ \E i \in DOMAIN pool :
          pool[i].state = "rented" /\ pool[i].id \in Range(requests.home)
    /\ \E i \in DOMAIN pool :
          pool[i].state = "home" /\ pool[i].id \in requests.rented

\* C5: a tick of the FIFO is one draw call (proceed makes one per day).  An
\* id ingressed when t draws had been made is returned by no draw before
\* draw number t + Delay (counting from 0), and is in bucket 0, hence
\* eligible, at draw number t + Delay and from then on.
C5_FIFODelay ==
    /\ [](\A id \in FIFOMembers(state_pools.home) :
             draws >= ingress_tick[id] + Delay
                => id \in Range(state_pools.home.pool[0]))
    /\ [][\A id \in Range(requests'.home) :
             draws >= ingress_tick[id] + Delay]_vars

\* An id ingressed during a tick is drawn exactly Delay draws later.
C5_Witness ==
    /\ op = "proceed"
    /\ \E id \in Range(requests.home) :
          /\ ingress_tick[id] >= 1
          /\ draws - 1 = ingress_tick[id] + Delay

\* The assets a step moves from home to rented.
Moved == {i \in DOMAIN pool : pool[i].state = "home" /\ pool'[i].state = "rented"}

\* C6: in a tick with demand n >= 0 exactly min(n, size of bucket 0 at the
\* start of the tick) assets move home -> rented; with demand 0 none leaves
\* home; every asset is home through the first Delay ticks (census
\* {home: all, rented: 0, lost: 0}, so {home: 10, ...} for the pool of 10),
\* and the next proceed with demand 1 changes the census by renting one.
C6_RentUpToDemand ==
    /\ [](calls <= Delay
             => report(pool) = [home |-> Len(pool), rented |-> 0, lost |-> 0])
    /\ [][(op' = "proceed" /\ calls' = calls + 1) =>
             /\ Cardinality(Moved) = Min(demand', Len(state_pools.home.pool[0]))
             /\ demand' = 0 => HomeIds(pool) \subseteq HomeIds(pool')
             /\ (calls = Delay /\ demand' = 1)
                   => /\ report(pool').rented = 1
                      /\ report(pool').home = Len(pool') - 1]_vars

\* The fixture's pool of 10 after 7 ticks and one proceed with demand 1.
C6_Witness ==
    /\ calls = Delay + 1
    /\ demand = 1
    /\ Len(pool) = PoolSize
    /\ report(pool) = [home |-> PoolSize - 1, rented |-> 1, lost |-> 0]

\* C8: Sink.draw returns nothing whatever n and the ingress history, so an
\* asset that is lost stays lost, untouched, with its trip, in every later
\* tick, and stays in the pool list the census counts.
C8_LostForever ==
    /\ [](\A n \in 0..MaxDemand : Len(SinkDraw(state_pools.lost, n).drawn) = 0)
    /\ [][/\ Len(requests'.lost) = 0
          /\ \A i \in DOMAIN pool :
                pool[i].state = "lost"
                   => /\ i \in DOMAIN pool'
                      /\ pool'[i] = pool[i]
                      /\ trips'[pool[i].trip] = trips[pool[i].trip]
          /\ report(pool').lost >= report(pool).lost]_vars

\* An asset lost on an earlier day has been through a later tick.
C8_Witness ==
    /\ op = "proceed"
    /\ Len(state_pools.lost) >= 1
    /\ \E i \in DOMAIN pool :
          /\ pool[i].state = "lost"
          /\ Last(trips[pool[i].trip].states)[2] < date - 1

\* The days by which an asset must be home (rented) for the MaxDay ticks of
\* the model to suffice for its rental (return).
HomeHorizon == MaxDay - Delay - MaxAssets
RentHorizon == MaxDay - (MaxCountdown \div Unit) - 2

IsHome(i) == i \in DOMAIN pool /\ pool[i].state = "home"
IsRented(i) == i \in DOMAIN pool /\ pool[i].state = "rented"

\* C7: with daily_loss_rate 0 and demand >= 1 on every tick, every home
\* asset is eventually rented, a trip with its id is then in the registry,
\* every rented asset eventually returns home, and at that point the same
\* registry trip (same trip id) has 'home' as its last label.
C7_Liveness ==
    /\ \A i \in 1..MaxAssets : (IsHome(i) /\ date <= HomeHorizon) ~> IsRented(i)
    /\ \A i \in 1..MaxAssets : (IsRented(i) /\ date <= RentHorizon) ~> IsHome(i)
    /\ [](\A i \in DOMAIN pool :
             pool[i].state = "rented"
                => \E k \in DOMAIN registry :
                      /\ registry[k] = pool[i].trip
                      /\ trips[registry[k]].id = k
                      /\ trips[registry[k]].crt_id = pool[i].id)
    /\ [][\A i \in DOMAIN pool :
             (pool[i].state = "rented" /\ pool'[i].state = "home")
                => LET k == trips[pool[i].trip].id IN
                   /\ k \in DOMAIN registry'
                   /\ registry'[k] = pool[i].trip
                   /\ trips'[registry'[k]].id = k
                   /\ Last(trips'[registry'[k]].states)[1] = "home"]_vars

\* An asset that was home at the start has been rented and is home again,
\* its registered trip closed by 'home'.
C7_Witness ==
    \E i \in DOMAIN pool, k \in DOMAIN registry :
       /\ pool[i].state = "home"
       /\ pool[i].created_at = NoDate
       /\ trips[registry[k]].crt_id = pool[i].id
       /\ Last(trips[registry[k]].states)[1] = "home"

\* C3 (as claimed): every trip starts with ('rented', start), is open only
\* while its asset is rented on it, and once ('lost', d) is its last entry
\* nothing is appended: next(day) on a lost asset and a second lose(day)
\* leave the trip's states unchanged.
C3_TripFrozenAfterLoss ==
    [][\A r \in DOMAIN trips :
          /\ trips[r].states[1][1] = "rented"
          /\ Last(trips[r].states)[1] \in {"rented", "home", "lost"}
          /\ Last(trips[r].states)[1] = "lost"
                => trips'[r].states = trips[r].states]_vars

\* C9 (as claimed): every transition that opens or closes a trip segment
\* (rent, recall, loss) hands the trip to the reporting callback exactly once.
C9_CallbackOncePerTransition ==
    [][pool'[1].state # pool[1].state
          => reported' = Append(reported,
                                IF pool'[1].trip # None THEN pool'[1].trip
                                ELSE pool[1].trip)]_vars

\* C10 (as claimed): lose(day) succeeds only on a rented asset, appending
\* ('lost', day) and moving it to lost; on a home or lost asset it fails and
\* leaves the asset and every trip unchanged.
C10_LoseOnlyFromRented ==
    [][(op' = "lose" /\ calls' = calls + 1) =>
          IF pool[1].state = "rented"
          THEN /\ err' = "none"
               /\ pool'[1].state = "lost"
               /\ \E day \in CRTDays :
                     trips'[pool[1].trip].states
                        = Append(trips[pool[1].trip].states, <<"lost", day>>)
          ELSE /\ err' # "none"
               /\ pool' = pool
               /\ trips' = trips]_vars

\* The number of copies of id in the sequence s.
Count(s, id) == Cardinality({k \in DOMAIN s : s[k] = id})

\* C11: FIFO.egress(id) on an id that is not in bucket 0 (a member of a later
\* bucket, or no member at all) fails its assertion and leaves every bucket
\* as it was; on an id in bucket 0 it raises nothing, takes that id out of
\* bucket 0, keeps the other members of bucket 0 and leaves the later
\* buckets alone.
C11_EgressAssertion ==
    [][op' = "egress" =>
          LET f == state_pools.home
              g == state_pools'.home
              id == demand'
          IN  IF id \in Range(f.pool[0])
              THEN /\ err' = "none"
                   /\ id \notin Range(g.pool[0])
                   /\ \A x \in (1..MaxIds) \ {id} :
                         Count(g.pool[0], x) = Count(f.pool[0], x)
                   /\ \A k \in 1..f.delay : g.pool[k] = f.pool[k]
              ELSE /\ err' = "AssertionError"
                   /\ g = f]_vars

\* egress has just failed on an id that is a member, but of a later bucket.
C11_Witness ==
    /\ op = "egress"
    /\ err = "AssertionError"
    /\ \E k \in 1..state_pools.home.delay : demand \in Range(state_pools.home.pool[k])

\* C12: a dump of a registry that holds a trip succeeds and has exactly one
\* row per registered trip and no other row; the row of key k has trip_id k,
\* the crt_id of the trip, the date of the trip's first entry as start, the
\* state label of the last entry, and as end the date of the last entry
\* when that label is 'home' and the null timestamp otherwise.
C12_DumpRows ==
    op = "dump" =>
       /\ err = "none" <=> DOMAIN registry # {}
       /\ err = "none" =>
             /\ Len(out) = Cardinality(DOMAIN registry)
             /\ \A k \in DOMAIN registry :
                   LET v == trips[registry[k]]
                       R == {i \in DOMAIN out : out[i].trip_id = k}
                   IN  /\ Cardinality(R) = 1
                       /\ \A i \in R :
                             /\ out[i].crt_id = v.crt_id
                             /\ ~out[i].start.nat
                             /\ out[i].start.date = v.states[1][2]
                             /\ out[i].state = Last(v.states)[1]
                             /\ IF Last(v.states)[1] = "home"
                                THEN /\ ~out[i].end.nat
                                     /\ out[i].end.date = Last(v.states)[2]
                                ELSE out[i].end.nat

\* The dump of a registry with a closed trip and a lost trip whose dates differ.
C12_Witness ==
    /\ op = "dump"
    /\ err = "none"
    /\ \E i, j \in DOMAIN out :
          /\ out[i].state = "home"
          /\ out[i].start.date # out[i].end.date
          /\ out[j].state = "lost"
          /\ trips[registry[out[j].trip_id]].states[1][2]
                # Last(trips[registry[out[j].trip_id]].states)[2]

\* C13: on a fresh home asset the k-th of k successive next(day) calls leaves
\* it rented when k is odd and home when k is even (reporting_callback runs
\* on every next from home or rented and on no other call, so
\* calls = Len(reported) says that every call so far was such a next); each
\* next from home opens a new trip, which becomes the current trip, starts
\* with ('rented', day) and has an id no earlier trip has; each next from
\* rented brings the asset home.
C13_NextAlternates ==
    /\ [](calls = Len(reported)
             => pool[1].state = IF calls % 2 = 1 THEN "rented" ELSE "home")
    /\ [][(op' = "next" /\ calls' = calls + 1) =>
             /\ pool[1].state = "home" =>
                   /\ err' = "none"
                   /\ pool'[1].state = "rented"
                   /\ Len(trips') = Len(trips) + 1
                   /\ SubSeq(trips', 1, Len(trips)) = trips
                   /\ pool'[1].trip = Len(trips')
                   /\ Len(Last(trips').states) = 1
                   /\ Last(trips').states[1][1] = "rented"
                   /\ Last(trips').crt_id = pool[1].id
                   /\ \A r \in DOMAIN trips : trips[r].id # Last(trips').id
             /\ pool[1].state = "rented" =>
                   /\ err' = "none"
                   /\ pool'[1].state = "home"
                   /\ Len(trips') = Len(trips)]_vars

\* Four next calls and nothing else: home again, after two trips.
C13_Witness ==
    /\ op = "next"
    /\ calls = 4
    /\ Len(reported) = 4
    /\ pool[1].state = "home"
    /\ Len(trips) = 2
    /\ trips[1].id # trips[2].id

\* C14: whatever the interleaving of creations of CRT, Trip, ClassA and
\* ClassB objects, the i-th object created of a kind has id i: the ids of a
\* kind are 1, 2, 3, ... in creation order, hence unique within the kind,
\* and creations of other kinds do not change them.
C14_IdsPerKind ==
    \A i \in DOMAIN objects :
       objects[i].id = Cardinality({j \in 1..i : objects[j].kind = objects[i].kind})

\* Two objects of one kind, created with objects of two other kinds between
\* them, one of these a CRT.
C14_Witness ==
    \E i, j, k, l \in DOMAIN objects :
       /\ i < j /\ j < k /\ k < l
       /\ objects[i].kind = objects[l].kind
       /\ objects[j].kind # objects[i].kind
       /\ objects[k].kind # objects[i].kind
       /\ objects[j].kind # objects[k].kind
       /\ "CRT" \in {objects[j].kind, objects[k].kind}
       /\ objects[l].id = 2

\* C15 (as claimed): ingress(id) of an id that is already a member of the
\* FIFO fails an assertion and leaves every bucket unchanged.
C15_DoubleIngressAsserts ==
    [][(op' = "ingress" /\ demand' \in FIFOMembers(state_pools.home)) =>
          /\ err' = "AssertionError"
          /\ state_pools'.home = state_pools.home]_vars

InvalidConfig ==
    shrinkage_rate < 0 \/ replenishment_rate < 0 \/ mean_trip_duration <= 0

\* C16 (as claimed): a pool with a negative daily_loss_rate, a negative
\* replenishment_rate or a mean_trip_duration <= 0 is rejected by the
\* constructor: the construction raises, no asset is created and no proceed
\* call ever runs on it.
C16_InvalidConfigRejected ==
    InvalidConfig => (err # "none" /\ Len(pool) = 0 /\ op = "init")

\* C17: after any sequence of next/lose calls on an asset, and for every
\* asset of a pool after every tick: the asset has a current trip exactly
\* when it is rented or lost; the current trip of a rented asset is open
\* (its only entry is ('rented', start)) and carries the asset's id as
\* crt_id; a home asset has no current trip (None).
C17_CurrentTrip ==
    \A i \in DOMAIN pool :
       LET crt == pool[i] IN
       /\ crt.trip # None <=> crt.state \in {"rented", "lost"}
       /\ crt.state = "rented" =>
             /\ crt.trip \in DOMAIN trips
             /\ Len(trips[crt.trip].states) = 1
             /\ trips[crt.trip].states[1][1] = "rented"
             /\ trips[crt.trip].crt_id = crt.id
       /\ crt.state = "home" => crt.trip = None

\* After a tick: a lost asset, a rented one, and a home one back from a trip.
C17_Witness ==
    /\ op = "proceed"
    /\ \E i, j, k \in DOMAIN pool :
          /\ pool[i].state = "lost" /\ pool[i].trip # None
          /\ pool[j].state = "rented"
          /\ pool[k].state = "home" /\ pool[k].trip = None
          /\ \E r \in DOMAIN trips :
                trips[r].crt_id = pool[k].id /\ Last(trips[r].states)[1] = "home"

\* The number of trip entries written for the asset id, from trip r on.
RECURSIVE EntriesFrom(_, _, _)
EntriesFrom(trs, id, r) ==
    IF r > Len(trs) THEN 0
    ELSE (IF trs[r].crt_id = id THEN Len(trs[r].states) ELSE 0)
         + EntriesFrom(trs, id, r + 1)

\* C18: in a tick the loss test of a rented asset comes before its due test.
\* An asset whose loss test is true is lost in that tick whether or not the
\* tick's draw returned it: it leaves the rented policy, is in the lost
\* policy, keeps its trip, which gains ('lost', day) as last entry and has
\* no 'home' entry; an asset is lost in no other way.  Every asset changes
\* state at most once per tick: home -> rented, rented -> home or
\* rented -> lost, with one trip entry written, or no change and none.
C18_LossBeforeDue ==
    [][(op' = "proceed" /\ calls' = calls + 1) =>
          \A i \in DOMAIN pool :
             LET crt == pool[i]
                 new == pool'[i]
             IN  /\ crt.id \in loss_hits' =>
                       /\ crt.state = "rented"
                       /\ new.state = "lost"
                       /\ crt.id \notin DOMAIN state_pools'.rented
                       /\ crt.id \in Range(state_pools'.lost)
                       /\ new.trip = crt.trip
                       /\ trips'[crt.trip].states
                             = Append(trips[crt.trip].states, <<"lost", date>>)
                       /\ \A k \in DOMAIN trips'[crt.trip].states :
                             trips'[crt.trip].states[k][1] # "home"
                 /\ (crt.state # "lost" /\ new.state = "lost")
                       => crt.id \in loss_hits'
                 /\ <<crt.state, new.state>> \in
                       {<<"home", "home">>, <<"home", "rented">>,
                        <<"rented", "rented">>, <<"rented", "home">>,
                        <<"rented", "lost">>, <<"lost", "lost">>}
                 /\ EntriesFrom(trips', crt.id, 1) - EntriesFrom(trips, crt.id, 1)
                       = IF new.state = crt.state THEN 0 ELSE 1
                 /\ new.state = crt.state => new = crt]_vars

\* A tick has lost an asset that the tick's draw had returned as due.
C18_Witness ==
    /\ op = "proceed"
    /\ \E i \in DOMAIN pool :
          /\ pool[i].state = "lost"
          /\ pool[i].id \in loss_hits
          /\ pool[i].id \in requests.rented
          /\ Last(trips[pool[i].trip].states) = <<"lost", date - 1>>

\* C19: every FIFO.draw(n), draw(0) included, on a FIFO with delay d > 0
\* appends bucket 1 to bucket 0 (whose members, drawn or not, all stay),
\* makes bucket k + 1 the new bucket k for 0 < k < d and empties bucket d;
\* with delay 0 it changes nothing.  The set of member ids is the same
\* before and after.  Hence an id ingressed (into bucket d) k <= d draws
\* ago is in bucket d - k, and one ingressed earlier is in bucket 0.
C19_DrawAges ==
    /\ [][op' = "draw" =>
             LET f == state_pools.home
                 g == state_pools'.home
             IN  /\ err' = "none"
                 /\ g.delay = f.delay
                 /\ FIFOMembers(g) = FIFOMembers(f)
                 /\ FIFOSize(g) = FIFOSize(f)
                 /\ IF f.delay > 0
                    THEN /\ g.pool[0] = f.pool[0] \o f.pool[1]
                         /\ \A k \in 1..(f.delay - 1) : g.pool[k] = f.pool[k + 1]
                         /\ g.pool[f.delay] = <<>>
                    ELSE g.pool = f.pool]_vars
    /\ [](\A id \in FIFOMembers(state_pools.home) :
             LET d == state_pools.home.delay
                 k == draws - ingress_tick[id]
             IN  id \in Range(state_pools.home.pool[IF k <= d THEN d - k ELSE 0]))

\* draw(0) has just brought an id from bucket 1 into bucket 0, MaxDelay
\* draws after its ingress, next to a member that was in bucket 0 before.
C19_Witness ==
    /\ op = "draw"
    /\ demand = 0
    /\ state_pools.home.delay = MaxDelay
    /\ \E id, other \in Range(state_pools.home.pool[0]) :
          /\ draws - ingress_tick[id] = MaxDelay
          /\ draws - ingress_tick[other] > MaxDelay

\* C20: FIFO.draw(n), n >= 0, returns the first min(n, size of bucket 0)
\* ids of bucket 0 as it is before the call ages the buckets; bucket 0 is
\* in order of arrival (while no id is held twice, its ids are in the order
\* of their ingress), so these are the earliest arrivals; with n beyond the
\* size of bucket 0 the result is all of bucket 0 and no id of a later
\* bucket.
C20_DrawEarliest ==
    [][op' = "draw" =>
          LET f == state_pools.home
              b == f.pool[0]
              n == demand'
          IN  /\ Len(requests'.home) = Min(n, Len(b))
              /\ \A p \in DOMAIN requests'.home : requests'.home[p] = b[p]
              /\ n > Len(b) => requests'.home = b
              /\ FIFOSize(f) = Cardinality(FIFOMembers(f)) =>
                    /\ \A p, q \in DOMAIN b :
                          p < q => ingress_tick[b[p]] <= ingress_tick[b[q]]
                    /\ \A k \in 1..f.delay :
                          Range(requests'.home) \cap Range(f.pool[k]) = {}]_vars

\* draw(1) has just returned the earlier of two ids that were both in
\* bucket 0, ingressed at different ticks.
C20_Witness ==
    /\ op = "draw"
    /\ demand = 1
    /\ state_pools.home.delay > 0
    /\ Len(requests.home) = 1
    /\ \E other \in Range(state_pools.home.pool[0]) :
          /\ ingress_tick[requests.home[1]] < ingress_tick[other]
          /\ draws - 1 - ingress_tick[other] >= state_pools.home.delay

\* The draw, counted from the ingress, that first returns a member whose
\* countdown at ingress was c (in 1/Unit days): floor(c) + 2 for c >= 0.
FirstDueDraw(c) == IF c < 0 THEN 1 ELSE (c \div Unit) + 2

\* C21: LogNormal.draw(n) returns, whatever n, exactly the members whose
\* countdown is below 0 when it is called, and then lowers every member's
\* countdown by one day, changing no membership.  So the k-th draw after a
\* member's ingress with countdown c >= 0 returns it exactly when
\* k >= floor(c) + 2, for as long as it is a member.  In a pool, a rented
\* asset whose countdown is below 0 at the start of a tick, and which the
\* tick does not lose, is home after the tick, also when the demand is 0.
C21_LogNormalDraw ==
    /\ [](\A n \in 0..MaxDemand :
             LogNormalDraw(state_pools.rented, n)
                = LogNormalDraw(state_pools.rented, 0))
    /\ [][op' \in {"draw", "proceed"} =>
             LET p == state_pools.rented
                 q == state_pools'.rented
             IN  /\ requests'.rented = {id \in DOMAIN p : p[id] < 0}
                 /\ NoPool =>
                       /\ DOMAIN q = DOMAIN p
                       /\ \A id \in DOMAIN p :
                             /\ q[id] = p[id] - Unit
                             /\ id \in requests'.rented
                                   <=> draws' - ingress_tick[id]
                                          >= FirstDueDraw(ingress_cd[id])
                 /\ ~NoPool =>
                       \A i \in DOMAIN pool :
                          (pool[i].state = "rented" /\ p[pool[i].id] < 0)
                             => pool'[i].state
                                   = IF pool[i].id \in loss_hits'
                                     THEN "lost" ELSE "home"]_vars

\* A member ingressed with the largest countdown has just been returned for
\* the second time, by a draw(0): by draw floor(c) + 3 after its ingress.
C21_Witness ==
    /\ NoPool
    /\ op = "draw"
    /\ demand = 0
    /\ \E id \in requests.rented :
          /\ ingress_cd[id] = MaxCountdown
          /\ draws - ingress_tick[id] = FirstDueDraw(MaxCountdown) + 1

\* C22 (as claimed): Scrambling.draw(n) leaves the membership unchanged;
\* for n beyond the membership size it returns all members; for
\* 0 <= n <= size it returns n members, pairwise distinct when the
\* policy holds no id twice.
C22_DrawWithoutReplacement ==
    [][op' = "draw" =>
          LET p == state_pools.lost
              d == requests'.lost
              n == demand'
          IN  /\ state_pools'.lost = p
              /\ n > Len(p) => d = p
              /\ n <= Len(p) =>
                    /\ Len(d) = n
                    /\ Range(d) \subseteq Range(p)
                    /\ Cardinality(Range(p)) = Len(p)
                          => Cardinality(Range(d)) = n]_vars

\* The registry keys whose trip has the given last label.
Registered(label) ==
    {k \in DOMAIN registry : Last(trips[registry[k]].states)[1] = label}

\* C23: for a pool with its own registry, empty at construction: after every
\* tick the registered trips whose last label is 'rented' ('lost') are as
\* many as the rented (lost) assets, every rented or lost asset has exactly
\* one registered trip of its own with that last label, namely its current
\* trip; a tick removes or rebinds no registry key, and adds exactly one key
\* per home -> rented transition it performs.
C23_RegistryCensus ==
    /\ [](/\ Cardinality(Registered("rented")) = report(pool).rented
          /\ Cardinality(Registered("lost")) = report(pool).lost
          /\ op = "init" => DOMAIN registry = {}
          /\ \A i \in DOMAIN pool :
                pool[i].state \in {"rented", "lost"} =>
                   LET own == {k \in Registered(pool[i].state) :
                                  trips[registry[k]].crt_id = pool[i].id}
                   IN  /\ Cardinality(own) = 1
                       /\ \A k \in own :
                             registry[k] = pool[i].trip /\ trips[registry[k]].id = k)
    /\ [][/\ DOMAIN registry \subseteq DOMAIN registry'
          /\ \A k \in DOMAIN registry : registry'[k] = registry[k]
          /\ Cardinality(DOMAIN registry')
                = Cardinality(DOMAIN registry) + Cardinality(Moved)]_vars

\* After a tick the registry holds an open trip, a lost trip and a closed one.
C23_Witness ==
    /\ op = "proceed"
    /\ Registered("rented") # {}
    /\ Registered("lost") # {}
    /\ Registered("home") # {}
    /\ \E i \in DOMAIN pool : pool[i].state = "lost"

\* C24: a proceed call advances the date by exactly one day, and every trip
\* entry, trip and asset the call creates carries the date before the
\* advance.  So the entries of every trip have strictly increasing dates
\* (a 'home' or 'lost' entry is at least a day after the 'rented' one), and
\* an asset created by a tick's replenishment is home, with no trip, at the
\* end of that tick.
C24_DatesIncrease ==
    /\ [](\A r \in DOMAIN trips :
             /\ trips[r].created_at = trips[r].states[1][2]
             /\ \A k \in 1..(Len(trips[r].states) - 1) :
                   trips[r].states[k][2] < trips[r].states[k + 1][2])
    /\ [][(op' = "proceed" /\ calls' = calls + 1) =>
             /\ date' = date + 1
             /\ \A r \in DOMAIN trips' :
                   LET old == IF r \in DOMAIN trips THEN Len(trips[r].states) ELSE 0
                   IN  \A k \in (old + 1)..Len(trips'[r].states) :
                          trips'[r].states[k][2] = date
             /\ Len(pool') = Len(pool) + n_new'
             /\ \A i \in (Len(pool) + 1)..Len(pool') :
                   /\ pool'[i].created_at = date
                   /\ pool'[i].state = "home"
                   /\ pool'[i].trip = None
                   /\ EntriesFrom(trips', pool'[i].id, 1) = 0]_vars

\* A tick that replenished the pool, which has a trip closed two or more
\* days after it was opened.
C24_Witness ==
    /\ op = "proceed"
    /\ n_new >= 1
    /\ \E r \in DOMAIN trips :
          /\ Len(trips[r].states) = 2
          /\ trips[r].states[2][2] >= trips[r].states[1][2] + 2

====
